---- MODULE Spec2Model ----
(***************************************************************************)
(* A model of uno-usage-scraper: the HourUsage value type (hour_usage.py)  *)
(* and the DailyUsageExtractor (uno.py).                                   *)
(*                                                                         *)
(* Time.  A naive wall-clock reading is a number of minutes since 00:00 of *)
(* day 0; an aware datetime is [wall, off]: the wall-clock reading and the *)
(* UTC offset of its tzinfo, in minutes.  The instant it denotes is        *)
(* wall - off.  Seconds and microseconds are zeroed by the same replace()  *)
(* call that zeroes the minute, so the minute stands for every unit        *)
(* smaller than the hour.                                                  *)
(*                                                                         *)
(* Text.  A digit string is a sequence of digits, a general string a       *)
(* sequence of one-character strings; a timestamp text is a record of the  *)
(* fields that are written in it.                                          *)
(***************************************************************************)
EXTENDS Integers, Sequences, FiniteSets, TLC

VARIABLES
    london_now,        \* uno.py _LONDON_NOW: [day, hour, off]
    match,             \* the argument of the last _parse_entry call
    entry,             \* what that call returned or raised
    response,          \* the portal's response to extract(): [status, html]
    gen,               \* the generator extract() returned: its position
    download_entries,  \* the generator's local download_entries
    upload_entries,    \* the generator's local upload_entries
    pos,               \* how many pairs of the zip the generator has consumed
    yielded,           \* the records the consumer has received, in order
    raised,            \* the exception the caller or consumer has received
    usage,             \* the HourUsage of the last construction
    item,              \* the last value of usage.item
    parsed             \* the last parse_item / parse_line call: input and outcome

vars == <<london_now, match, entry, response, gen, download_entries,
          upload_entries, pos, yielded, raised, usage, item, parsed>>

extractorVars == <<response, gen, download_entries, upload_entries, pos,
                   yielded, raised>>
entryVars == <<match, entry>>
usageVars == <<usage, item, parsed>>

\* Python's None, and a value that is present
None == <<>>
Some(x) == <<x>>
Value(opt) == opt[1]

(***************************************************************************)
(* Bounds of the model.                                                    *)
(***************************************************************************)
\* the longest array literal (number of entries) a document holds
MaxEntries == 2
\* the largest first digit of a two-digit hour text
MaxLeadDigit == 2

MinutesPerDay == 24 * 60

(***************************************************************************)
(* datetime                                                                *)
(***************************************************************************)
Instant(dt) == dt.wall - dt.off

\* datetime.__eq__ on aware datetimes: the same instant
DtEq(a, b) == Instant(a) = Instant(b)

\* dt.astimezone(pytz.utc)
AsTimezoneUtc(dt) == [wall |-> dt.wall - dt.off, off |-> 0]

\* dt.replace(minute=0, second=0, microsecond=0): wall-clock fields only
ReplaceSubHourZero(dt) ==
    [wall |-> dt.wall - (dt.wall % 60), off |-> dt.off]

DayOf(dt) == dt.wall \div MinutesPerDay
HourOf(dt) == (dt.wall % MinutesPerDay) \div 60
MinuteOf(dt) == dt.wall % 60

\* pytz.timezone('Europe/London') used directly as a tzinfo: the zone's
\* first entry, local mean time, one minute behind UTC
TZ_LONDON_Offset == -1

(***************************************************************************)
(* int() and float() of scraped text                                       *)
(***************************************************************************)
RECURSIVE IntOfDigits(_)
IntOfDigits(ds) ==
    IF ds = <<>> THEN 0
    ELSE 10 * IntOfDigits(SubSeq(ds, 1, Len(ds) - 1)) + ds[Len(ds)]

RECURSIVE Pow10(_)
Pow10(n) == IF n = 0 THEN 1 ELSE 10 * Pow10(n - 1)

\* int(float(text) * 1e6) for text "<whole>" or "<whole>.<frac>"
MegabytesToBytes(mb) ==
    IntOfDigits(mb.whole) * 1000000
        + (IntOfDigits(mb.frac) * 1000000) \div Pow10(Len(mb.frac))

(***************************************************************************)
(* HourUsage                                                               *)
(***************************************************************************)
\* HourUsage.__init__(dt, down, up)
HourUsage(dt, down, up) ==
    [dt |-> ReplaceSubHourZero(dt), down |-> down, up |-> up]

\* HourUsage.__eq__
HourUsageEq(a, b) == DtEq(b.dt, a.dt) /\ b.down = a.down /\ b.up = a.up

(***************************************************************************)
(* Text and values of the HourUsage parsers.                               *)
(*                                                                         *)
(* A string is a sequence of tokens: a digit [tok "digit", d], any other   *)
(* character [tok "char", c], or a timestamp written out in full           *)
(* [tok "ts", ts], where ts is                                             *)
(*   [form "iso", day, hour, minute, off]  "2017-08-30T08:00:00+00:00"     *)
(*   [form "hourZ", day, hour]             "2018-10-27T22Z"                *)
(* A value of an item is [t "str", s], [t "int", n], [t "decimal", special,*)
(* n] (DynamoDB's numbers are decimal.Decimal) or [t "none"].              *)
(***************************************************************************)
DigitTok(d) == [tok |-> "digit", d |-> d]
CharTok(c) == [tok |-> "char", c |-> c]
TsTok(ts) == [tok |-> "ts", ts |-> ts]
Comma == CharTok(",")

DigitStr(ds) == [i \in 1..Len(ds) |-> DigitTok(ds[i])]
CharStr(cs) == [i \in 1..Len(cs) |-> CharTok(cs[i])]

StrValue(s) == [t |-> "str", s |-> s]
IntValue(n) == [t |-> "int", n |-> n]
DecimalValue(n) == [t |-> "decimal", special |-> "finite", n |-> n]
DecimalInfinity == [t |-> "decimal", special |-> "Infinity", n |-> 0]
NoneValue == [t |-> "none"]

\* int(s) of a string: decimal digits only
IntOfStr(s) ==
    IF s # <<>> /\ \A i \in 1..Len(s) : s[i].tok = "digit"
    THEN [kind |-> "ok", n |-> IntOfDigits([i \in 1..Len(s) |-> s[i].d])]
    ELSE [kind |-> "ValueError"]

\* int(v) of a value of an item
IntOf(v) ==
    CASE v.t = "int" -> [kind |-> "ok", n |-> v.n]
      [] v.t = "decimal" ->
            IF v.special = "finite" THEN [kind |-> "ok", n |-> v.n]
            ELSE IF v.special = "Infinity" THEN [kind |-> "OverflowError"]
            ELSE [kind |-> "ValueError"]
      [] v.t = "str" -> IntOfStr(v.s)
      [] OTHER -> [kind |-> "TypeError"]

\* dateutil.parser.parse(s) of a string
DateutilParseStr(s) ==
    IF Len(s) = 1 /\ s[1].tok = "ts"
    THEN LET ts == s[1].ts
         IN  IF ts.form = "iso"
             THEN [kind |-> "ok",
                   dt |-> [wall |-> ts.day * MinutesPerDay
                                     + ts.hour * 60 + ts.minute,
                           off |-> ts.off]]
             ELSE [kind |-> "ok",
                   dt |-> [wall |-> ts.day * MinutesPerDay
                                     + ts.hour * 60,
                           off |-> 0]]
    ELSE [kind |-> "ValueError"]

\* dateutil.parser.parse(v) of a value of an item
DateutilParse(v) ==
    IF v.t = "str" THEN DateutilParseStr(v.s) ELSE [kind |-> "TypeError"]

\* f'{dt:%Y-%m-%dT%HZ}': the wall-clock date and hour, and a literal Z
FormatDateHour(dt) ==
    <<TsTok([form |-> "hourZ", day |-> DayOf(dt), hour |-> HourOf(dt)])>>

(***************************************************************************)
(* HourUsage.item, parse_line, parse_item                                  *)
(***************************************************************************)
\* a dict with keys _DATE_HOUR, _DOWNLOADED_BYTES, _UPLOADED_BYTES, each
\* present (Some) or absent (None)
Item(u) ==
    [DateHour |-> Some(StrValue(FormatDateHour(u.dt))),
     DownloadedBytes |-> Some(IntValue(u.down)),
     UploadedBytes |-> Some(IntValue(u.up))]

\* the indices of the commas of a line, ascending
CommaIndices(line) ==
    {i \in 1..Len(line) : line[i].tok = "char" /\ line[i].c = ","}
SetMin(S) == CHOOSE x \in S : \A y \in S : x <= y

\* line.split(',', 2)
SplitFirstTwo(line) ==
    LET cs == CommaIndices(line)
    IN  IF cs = {} THEN <<line>>
        ELSE LET c1 == SetMin(cs)
                 rest == cs \ {c1}
             IN  IF rest = {}
                 THEN <<SubSeq(line, 1, c1 - 1), SubSeq(line, c1 + 1, Len(line))>>
                 ELSE LET c2 == SetMin(rest)
                      IN  <<SubSeq(line, 1, c1 - 1),
                            SubSeq(line, c1 + 1, c2 - 1),
                            SubSeq(line, c2 + 1, Len(line))>>

\* parse_line without .astimezone(pytz.utc)
parse_line_no_astimezone(line) ==
    LET parts == SplitFirstTwo(line)
    IN  IF Len(parts) # 3 THEN [kind |-> "ValueError"]
        ELSE LET dt == DateutilParseStr(parts[1])
                 down == IntOfStr(parts[2])
                 up == IntOfStr(parts[3])
             IN  IF dt.kind # "ok" THEN [kind |-> dt.kind]
                 ELSE IF down.kind # "ok" THEN [kind |-> down.kind]
                 ELSE IF up.kind # "ok" THEN [kind |-> up.kind]
                 ELSE [kind |-> "ok", value |-> HourUsage(dt.dt, down.n, up.n)]

parse_line(line) ==
    LET parts == SplitFirstTwo(line)
    IN  IF Len(parts) # 3 THEN [kind |-> "ValueError"]   \* dt, down, up = ...
        ELSE LET dt == DateutilParseStr(parts[1])
                 down == IntOfStr(parts[2])
                 up == IntOfStr(parts[3])
             IN  IF dt.kind # "ok" THEN [kind |-> dt.kind]
                 ELSE IF down.kind # "ok" THEN [kind |-> down.kind]
                 ELSE IF up.kind # "ok" THEN [kind |-> up.kind]
                 ELSE [kind |-> "ok",
                       value |-> HourUsage(AsTimezoneUtc(dt.dt), down.n, up.n)]

\* the body of parse_item's try: the arguments of HourUsage(...) left to right
parse_item_try(it) ==
    IF it.DateHour = None THEN [kind |-> "KeyError"]
    ELSE LET dt == DateutilParse(Value(it.DateHour))
         IN  IF dt.kind # "ok" THEN [kind |-> dt.kind]
    ELSE IF it.DownloadedBytes = None THEN [kind |-> "KeyError"]
    ELSE LET down == IntOf(Value(it.DownloadedBytes))
         IN  IF down.kind # "ok" THEN [kind |-> down.kind]
    ELSE IF it.UploadedBytes = None THEN [kind |-> "KeyError"]
    ELSE LET up == IntOf(Value(it.UploadedBytes))
         IN  IF up.kind # "ok" THEN [kind |-> up.kind]
    ELSE [kind |-> "ok",
          value |-> HourUsage(AsTimezoneUtc(dt.dt), down.n, up.n)]

\* parse_item: except KeyError and except TypeError raise ValueError
parse_item(it) ==
    LET r == parse_item_try(it)
    IN  IF r.kind \in {"KeyError", "TypeError"}
        THEN [kind |-> "ValueError"]
        ELSE r

(***************************************************************************)
(* DailyUsageExtractor._parse_entry                                        *)
(***************************************************************************)
\* the 0..23 hour of the match, before the datetime is built
EntryHour(m) ==
    LET hour0 == IntOfDigits(m[1])
        is_afternoon == m[2] = "pm"
        hour1 == IF hour0 = 12 \/ is_afternoon THEN (hour0 + 12) % 24 ELSE hour0
    IN  IF hour1 = 0 /\ is_afternoon THEN 12 ELSE hour1

\* _parse_entry with "hour > _LONDON_NOW.hour" for the day before
parse_entry_strictly_later(m, now) ==
    LET hour == EntryHour(m)
        time == [wall |-> now.day * MinutesPerDay + hour * 60,
                 off |-> TZ_LONDON_Offset]
        yesterday == [time EXCEPT !.wall = @ - MinutesPerDay]
    IN  IF hour > 23
        THEN [kind |-> "ValueError"]
        ELSE [kind |-> "ok",
              time |-> IF hour > now.hour THEN yesterday ELSE time,
              bytes |-> MegabytesToBytes(m[3])]

parse_entry(m, now) ==
    LET hour == EntryHour(m)
        time == [wall |-> now.day * MinutesPerDay + hour * 60,
                 off |-> TZ_LONDON_Offset]
        yesterday == [time EXCEPT !.wall = @ - MinutesPerDay]
    IN  IF hour > 23
        THEN [kind |-> "ValueError"]      \* datetime(hour=...) out of range
        ELSE [kind |-> "ok",
              time |-> IF hour >= now.hour THEN yesterday ELSE time,
              bytes |-> MegabytesToBytes(m[3])]

(***************************************************************************)
(* Inputs                                                                  *)
(***************************************************************************)
Digit == 0..9
\* what \d+ can match as the hour: one or two digits
HourTexts == {<<d>> : d \in Digit} \cup
             {<<a, b>> : a \in 0..MaxLeadDigit, b \in Digit}
Markers == {"am", "pm"}
\* usage figures whose float arithmetic is exact
MBTexts == {[whole |-> <<1>>, frac |-> <<5>>],
            [whole |-> <<2>>, frac |-> <<>>],
            [whole |-> <<0>>, frac |-> <<2, 5>>]}

\* _LONDON_NOW: any hour of the day, in winter (UTC+0) or summer (UTC+1)
Nows == [day : {1}, hour : 0..23, off : {0, 60}]

(***************************************************************************)
(* DailyUsageExtractor._extract_variable_entries                           *)
(*                                                                         *)
(* A document is [data, data2]: for each variable, whether                 *)
(* "var <name> = ...;" is found in the page, and the matches of            *)
(* _ENTRY_REGEX in its value, in document order (possibly none).           *)
(***************************************************************************)
extract_variable_entries(html, name) ==
    IF ~html[name].found
    THEN [kind |-> "ParseError", message |-> "Could not find variable"]
    ELSE IF html[name].entries = <<>>
    THEN [kind |-> "ParseError", message |-> "Could not extract any usage samples"]
    ELSE [kind |-> "ok", entries |-> html[name].entries]

\* requests.Response.ok: raise_for_status() raises for 400 <= status < 600
ResponseOk(resp) == ~(400 <= resp.status /\ resp.status < 600)

Min(a, b) == IF a < b THEN a ELSE b

(***************************************************************************)
(* DailyUsageExtractor._extract_data_points: one iteration of              *)
(*   for down, up in zip(download_entries, upload_entries)                 *)
(* at position i (from 1), up to its yield or raise.                       *)
(***************************************************************************)
DataPoint(down, up, now) ==
    LET d == parse_entry(down, now)
        u == parse_entry(up, now)
    IN  IF d.kind # "ok" THEN [kind |-> d.kind]
        ELSE IF u.kind # "ok" THEN [kind |-> u.kind]
        ELSE IF ~DtEq(d.time, u.time)
        THEN [kind |-> "ParseError",
              message |-> "Download/upload array data points do not match up"]
        ELSE [kind |-> "ok",
              value |-> HourUsage(AsTimezoneUtc(d.time), u.bytes, d.bytes)]

\* the loop from position p (pairs consumed so far) to the next yield, raise
\* or the end of the zip
LoopStep(downs, ups, p) ==
    IF p >= Min(Len(downs), Len(ups))
    THEN /\ gen' = "finished"
         /\ UNCHANGED <<pos, yielded, raised>>
    ELSE LET r == DataPoint(downs[p + 1], ups[p + 1], london_now)
         IN  IF r.kind = "ok"
             THEN /\ gen' = "suspended"
                  /\ pos' = p + 1
                  /\ yielded' = Append(yielded, r.value)
                  /\ UNCHANGED raised
             ELSE /\ gen' = "raised"
                  /\ raised' = Some(r)
                  /\ UNCHANGED <<pos, yielded>>

(***************************************************************************)
(* DailyUsageExtractor.extract: the request, the status check and the      *)
(* creation of the generator, whose body has not started to run.           *)
(***************************************************************************)
extract(resp) ==
    /\ response = None
    /\ response' = Some(resp)
    /\ IF ~ResponseOk(resp)
       THEN /\ raised' = Some([kind |-> "UnoError", status |-> resp.status])
            /\ UNCHANGED gen
       ELSE /\ gen' = "created"
            /\ UNCHANGED raised
    /\ UNCHANGED <<london_now, download_entries, upload_entries, pos, yielded>>
    /\ UNCHANGED <<entryVars, usageVars>>

\* the consumer's first next(): the body runs from its start
GenStart ==
    /\ gen = "created"
    /\ LET d == extract_variable_entries(Value(response).html, "data")
           u == extract_variable_entries(Value(response).html, "data2")
       IN  IF d.kind # "ok"
           THEN /\ gen' = "raised"
                /\ raised' = Some(d)
                /\ UNCHANGED <<download_entries, upload_entries, pos, yielded>>
           ELSE IF u.kind # "ok"
           THEN /\ gen' = "raised"
                /\ raised' = Some(u)
                /\ download_entries' = d.entries
                /\ UNCHANGED <<upload_entries, pos, yielded>>
           ELSE /\ download_entries' = d.entries
                /\ upload_entries' = u.entries
                /\ LoopStep(d.entries, u.entries, 0)
    /\ UNCHANGED <<london_now, response>>
    /\ UNCHANGED <<entryVars, usageVars>>

\* a later next(): the body resumes after its yield
GenResume ==
    /\ gen = "suspended"
    /\ LoopStep(download_entries, upload_entries, pos)
    /\ UNCHANGED <<london_now, response, download_entries, upload_entries>>
    /\ UNCHANGED <<entryVars, usageVars>>

(***************************************************************************)
(* Documents and responses                                                 *)
(***************************************************************************)
\* the hours 12am, 1am, 12pm and 1pm
DocHourTexts == {<<1>>, <<1, 2>>}
DownloadMatches == {<<h, m, [whole |-> <<1>>, frac |-> <<5>>]>> :
                        h \in DocHourTexts, m \in Markers}
UploadMatches == {<<h, m, [whole |-> <<2>>, frac |-> <<>>]>> :
                        h \in DocHourTexts, m \in Markers}

SeqsUpTo(S, n) == UNION {[1..k -> S] : k \in 0..n}

Variable(S) == {[found |-> FALSE, entries |-> <<>>]} \cup
               [found : {TRUE}, entries : SeqsUpTo(S, MaxEntries)]
Documents == [data : Variable(DownloadMatches), data2 : Variable(UploadMatches)]
Statuses == {200, 304, 404, 503}
Responses == [status : Statuses, html : Documents]

\* the hours _LONDON_NOW takes in the runs of the extractor
ExtractorNows == {n \in Nows : n.hour \in {0, 1, 13}}

(***************************************************************************)
(* Specifications                                                          *)
(***************************************************************************)
InitExtractor ==
    /\ response = None
    /\ gen = "none"
    /\ download_entries = <<>>
    /\ upload_entries = <<>>
    /\ pos = 0
    /\ yielded = <<>>
    /\ raised = None

InitEntry == match = None /\ entry = None

InitUsage == usage = None /\ item = None /\ parsed = None

\* one run of the extractor
Init ==
    /\ london_now \in ExtractorNows
    /\ InitExtractor /\ InitEntry /\ InitUsage

Next ==
    \/ response = None /\ \E resp \in Responses : extract(resp)
    \/ GenStart
    \/ GenResume

Spec == Init /\ [][Next]_vars

\* _parse_entry as a function of its match and of _LONDON_NOW
ParseEntry(m) ==
    /\ match = None
    /\ match' = Some(m)
    /\ entry' = Some(parse_entry(m, london_now))
    /\ UNCHANGED <<london_now, extractorVars, usageVars>>

InitParseEntry ==
    /\ london_now \in Nows
    /\ InitExtractor /\ InitEntry /\ InitUsage

NextParseEntry ==
    \E h \in HourTexts, m \in Markers, mb \in MBTexts : ParseEntry(<<h, m, mb>>)

SpecParseEntry == InitParseEntry /\ [][NextParseEntry]_vars

(***************************************************************************)
(* The HourUsage operations, each on inputs of its own.                    *)
(***************************************************************************)
\* HourUsage(dt, down, up)
New(dt, down, up) ==
    /\ usage = None /\ parsed = None
    /\ usage' = Some(HourUsage(dt, down, up))
    /\ UNCHANGED <<item, parsed>>
    /\ UNCHANGED <<london_now, extractorVars, entryVars>>

\* usage.item
GetItem ==
    /\ usage # None /\ item = None /\ parsed = None
    /\ item' = Some(Item(Value(usage)))
    /\ UNCHANGED <<usage, parsed>>
    /\ UNCHANGED <<london_now, extractorVars, entryVars>>

\* HourUsage.parse_item(it)
ParseItem(it) ==
    /\ parsed = None
    /\ usage = None \/ item # None
    /\ parsed' = Some([op |-> "parse_item", arg |-> it, out |-> parse_item(it)])
    /\ UNCHANGED <<usage, item>>
    /\ UNCHANGED <<london_now, extractorVars, entryVars>>

\* HourUsage.parse_line(line)
ParseLine(line) ==
    /\ parsed = None /\ usage = None
    /\ parsed' = Some([op |-> "parse_line", arg |-> line, out |-> parse_line(line)])
    /\ UNCHANGED <<usage, item>>
    /\ UNCHANGED <<london_now, extractorVars, entryVars>>

\* aware timestamps: UTC, UTC+1, UTC-5 and UTC+5:30
Offsets == {0, 60, -300, 330}
Timestamps == [day : {1}, hour : {0, 8, 22, 23}, minute : {0, 25}, off : Offsets]
DatetimeOf(t) ==
    [wall |-> t.day * MinutesPerDay + t.hour * 60 + t.minute,
     off |-> t.off]
IsoText(t) ==
    <<TsTok([form |-> "iso", day |-> t.day, hour |-> t.hour,
             minute |-> t.minute, off |-> t.off])>>

DownCounts == {0, 3487529}
UpCounts == {0, 934785}

\* items read back from storage, well-formed and not
DateHourValues ==
    {None,
     Some(StrValue(<<TsTok([form |-> "hourZ", day |-> 1, hour |-> 22])>>)),
     Some(StrValue(CharStr(<<"i", "n", "v", "a", "l", "i", "d">>))),
     Some(IntValue(13)),
     Some(NoneValue)}
ByteValues(n, word) ==
    {None,
     Some(IntValue(n)),
     Some(DecimalValue(n)),
     Some(DecimalInfinity),
     Some(StrValue(DigitStr(<<4, 2>>))),
     Some(StrValue(CharStr(word))),
     Some(NoneValue)}
Items == [DateHour : DateHourValues,
          DownloadedBytes : ByteValues(3487529, <<"f", "o", "o">>),
          UploadedBytes : ByteValues(934785, <<"b", "a", "r">>)]

\* the items parse_item is given: the record's own item once it is taken,
\* any stored item otherwise
ItemInputs == IF item # None THEN {Value(item)} ELSE Items

\* legacy lines "<ts>,<a>,<b>", and lines that are not of that form
\* the integer fields of a line: the digits written and the number meant
Fields == {[text |-> DigitStr(<<1, 7, 6, 2, 0, 0, 0, 0>>), n |-> 17620000],
           [text |-> DigitStr(<<1, 4, 6, 5, 0, 0, 0, 0>>), n |-> 14650000],
           [text |-> DigitStr(<<0>>), n |-> 0]}
LineOf(t, a, b) == IsoText(t) \o <<Comma>> \o a \o <<Comma>> \o b
WellFormedLines ==
    {LineOf(t, a.text, b.text) : t \in Timestamps, a \in Fields, b \in Fields}
MalformedLines ==
    {CharStr(<<"f", "o", "o">>),
     IsoText([day |-> 1, hour |-> 8, minute |-> 0, off |-> 0])
         \o <<Comma>> \o DigitStr(<<5>>),
     LineOf([day |-> 1, hour |-> 8, minute |-> 0, off |-> 0],
            DigitStr(<<5>>), DigitStr(<<6>>) \o <<Comma>> \o DigitStr(<<7>>)),
     LineOf([day |-> 1, hour |-> 8, minute |-> 0, off |-> 0],
            CharStr(<<"f", "o", "o">>), DigitStr(<<6>>)),
     CharStr(<<"f", "o", "o">>) \o <<Comma>> \o DigitStr(<<5>>)
         \o <<Comma>> \o DigitStr(<<6>>)}
Lines == WellFormedLines \cup MalformedLines

InitHourUsage ==
    /\ london_now \in {n \in Nows : n.hour = 0 /\ n.off = 0}
    /\ InitExtractor /\ InitEntry /\ InitUsage

NextHourUsage ==
    \/ \E t \in Timestamps, down \in DownCounts, up \in UpCounts :
            New(DatetimeOf(t), down, up)
    \/ GetItem
    \/ \E it \in ItemInputs : ParseItem(it)
    \/ \E line \in Lines : ParseLine(line)

SpecHourUsage == InitHourUsage /\ [][NextHourUsage]_vars

(***************************************************************************)
(* Claims about _parse_entry (SpecParseEntry)                              *)
(***************************************************************************)
\* the 24-hour value of a 12-hour clock reading
Hour24(h, m) ==
    IF m = "am" THEN (IF h = 12 THEN 0 ELSE h)
    ELSE (IF h = 12 THEN 12 ELSE h + 12)

\* C7: for every hour h in 1..12, marker m and current local hour H,
\* _parse_entry decodes (h, m) to a local timestamp whose hour of day is the
\* 24-hour value of (h, m), on the current local date when that value is
\* below H and on the previous day when it is H or more.
C7_Decoding ==
    entry # None =>
        LET m == Value(match)
            e == Value(entry)
            h == IntOfDigits(m[1])
            v == Hour24(h, m[2])
        IN  h \in 1..12 =>
                /\ e.kind = "ok"
                /\ HourOf(e.time) = v
                /\ MinuteOf(e.time) = 0
                /\ DayOf(e.time) = IF v < london_now.hour
                                   THEN london_now.day
                                   ELSE london_now.day - 1

\* C7: 12pm decoded at noon: the value equals the current hour, and the
\* entry is yesterday's
C7_Witness ==
    /\ entry # None
    /\ Value(match)[1] = <<1, 2>> /\ Value(match)[2] = "pm"
    /\ london_now.hour = 12
    /\ Value(entry).kind = "ok"
    /\ HourOf(Value(entry).time) = 12
    /\ DayOf(Value(entry).time) = london_now.day - 1

(***************************************************************************)
(* Claims about the extraction pipeline (Spec)                             *)
(***************************************************************************)
DataEntries == Value(response).html.data.entries
Data2Entries == Value(response).html.data2.entries

\* C1: the i-th record's down is the bytes of the i-th entry of data and its
\* up the bytes of the i-th entry of data2.
C1_DownFromDataUpFromData2 ==
    \A i \in 1..Len(yielded) :
        /\ yielded[i].down = MegabytesToBytes(DataEntries[i][3])
        /\ yielded[i].up = MegabytesToBytes(Data2Entries[i][3])

\* C3: when extraction does not fail, the records are in strictly ascending
\* hour order, no two with the same hour.
C3_StrictlyAscending ==
    gen = "finished" =>
        \A i, j \in 1..Len(yielded) :
            i < j => Instant(yielded[i].dt) < Instant(yielded[j].dt)

\* the n-th download entry and the n-th upload entry decode to different
\* local timestamps
Mismatch(n) ==
    /\ n \in 1..Len(DataEntries) /\ n \in 1..Len(Data2Entries)
    /\ LET d == parse_entry(DataEntries[n], london_now)
           u == parse_entry(Data2Entries[n], london_now)
       IN  d.kind = "ok" /\ u.kind = "ok" /\ ~DtEq(d.time, u.time)

\* C4: when the arrays mismatch at some position, extraction fails with
\* ParseError and the consumer receives no record at all.
C4_MismatchEmitsNothing ==
    (gen # "none" /\ \E n \in 1..MaxEntries + 1 : Mismatch(n)) =>
        /\ yielded = <<>>
        /\ gen # "finished"
        /\ gen = "raised" => Value(raised).kind = "ParseError"

\* C5: extraction either yields one record for every entry of data and of
\* data2, or fails with ParseError.
C5_NoSilentDrop ==
    /\ gen = "finished" =>
            /\ Len(yielded) = Len(DataEntries)
            /\ Len(yielded) = Len(Data2Entries)
    /\ gen = "raised" => Value(raised).kind = "ParseError"

\* C10: a response whose status is outside 200..299 makes extract fail at
\* call time with an UnoError carrying the status; the pipeline never runs.
C10_NonSuccessStatusFails ==
    (response # None /\ Value(response).status \notin 200..299) =>
        /\ raised = Some([kind |-> "UnoError", status |-> Value(response).status])
        /\ gen = "none"
        /\ yielded = <<>>

(***************************************************************************)
(* Claims about HourUsage (SpecHourUsage)                                  *)
(***************************************************************************)
\* C2: round trip: parse_item(R.item) == R for every record R built from an
\* aware timestamp of any offset.
C2_RoundTrip ==
    (usage # None /\ item # None /\ parsed # None) =>
        LET p == Value(parsed)
        IN  (p.op = "parse_item" /\ p.arg = Item(Value(usage))) =>
                /\ p.out.kind = "ok"
                /\ HourUsageEq(p.out.value, Value(usage))

\* C6: the hour of every record is normalized to UTC and is the start of a
\* UTC hour.
C6_HourIsUtcAligned ==
    usage # None =>
        /\ Value(usage).dt.off = 0
        /\ Instant(Value(usage).dt) % 60 = 0

\* the start of the UTC hour an aware timestamp falls in
UtcHourOf(dt) ==
    [wall |-> Instant(dt) - (Instant(dt) % 60), off |-> 0]

\* the line of the last parse_line call is "<t>,<a>,<b>"
ParsedLine(t, a, b) ==
    /\ parsed # None
    /\ Value(parsed).op = "parse_line"
    /\ Value(parsed).arg = LineOf(t, a.text, b.text)

\* C8 as stated: "<ts>,<a>,<b>" gives uploaded = a, downloaded = b and the
\* hour of ts in UTC.
C8_UploadedFirst ==
    \A t \in Timestamps, a \in Fields, b \in Fields :
        ParsedLine(t, a, b) =>
            LET out == Value(parsed).out
            IN  /\ out.kind = "ok"
                /\ out.value.up = a.n
                /\ out.value.down = b.n
                /\ DtEq(out.value.dt, UtcHourOf(DatetimeOf(t)))

\* C8, amended: "<ts>,<a>,<b>" gives downloaded = a, uploaded = b and the
\* start of the UTC hour of ts.
C8_DownloadedFirst ==
    \A t \in Timestamps, a \in Fields, b \in Fields :
        ParsedLine(t, a, b) =>
            LET out == Value(parsed).out
            IN  /\ out.kind = "ok"
                /\ out.value.down = a.n
                /\ out.value.up = b.n
                /\ out.value.dt = UtcHourOf(DatetimeOf(t))

\* C8: "<day 1>T08:25+05:30,17620000,14650000" has been parsed: 02:00 UTC
C8_Witness ==
    /\ ParsedLine([day |-> 1, hour |-> 8, minute |-> 25, off |-> 330],
                  [text |-> DigitStr(<<1, 7, 6, 2, 0, 0, 0, 0>>), n |-> 17620000],
                  [text |-> DigitStr(<<1, 4, 6, 5, 0, 0, 0, 0>>), n |-> 14650000])
    /\ Value(parsed).out.kind = "ok"
    /\ Value(parsed).out.value =
            [dt |-> [wall |-> MinutesPerDay + 2 * 60, off |-> 0],
             down |-> 17620000, up |-> 14650000]

\* a byte-count value int() can make an integer of
Coercible(v) ==
    \/ v.t = "int"
    \/ v.t = "decimal" /\ v.special = "finite"
    \/ v.t = "str" /\ v.s # <<>> /\ \A i \in 1..Len(v.s) : v.s[i].tok = "digit"

\* a DateHour value that is a string holding a timestamp
IsTimestampText(v) == v.t = "str" /\ Len(v.s) = 1 /\ v.s[1].tok = "ts"

\* an item with a key absent, a DateHour that is no string or no timestamp,
\* or a byte count that is no integer
Malformed(it) ==
    \/ it.DateHour = None
    \/ it.DownloadedBytes = None
    \/ it.UploadedBytes = None
    \/ ~IsTimestampText(Value(it.DateHour))
    \/ ~Coercible(Value(it.DownloadedBytes))
    \/ ~Coercible(Value(it.UploadedBytes))

\* C9: parse_item of a malformed item fails with ValueError and nothing else.
C9_MalformedIsValueError ==
    (parsed # None /\ Value(parsed).op = "parse_item"
        /\ Malformed(Value(parsed).arg)) =>
            Value(parsed).out.kind = "ValueError"

(***************************************************************************)
(* Claims about the conversion to UTC (Spec)                               *)
(***************************************************************************)
\* the UTC instant of a London wall-clock reading under the offset in force
\* (london_now.off: 0 in winter, 60 in summer), as an aware datetime
LondonWallToUtc(wall) == [wall |-> wall - london_now.off, off |-> 0]

\* C11: the hour of every emitted record is the UTC instant of the decoded
\* local wall-clock hour under the offset in force in Europe/London: the
\* same hour when the zone is at UTC+0, one hour earlier when it is at UTC+1.
C11_HourIsLondonHourInUtc ==
    \A i \in 1..Len(yielded) :
        LET d == parse_entry(DataEntries[i], london_now)
        IN  /\ d.kind = "ok"
            /\ yielded[i].dt = LondonWallToUtc(d.time.wall)

====
